---------------------------- MODULE Spec2Model ----------------------------
(***************************************************************************)
(* Retrieval engine of the persona post generator: src/src/retrieve.py     *)
(* (PostRetriever) over an index built by src/src/indexer.py.              *)
(*                                                                         *)
(* Vectors are pairs of integers in tenths (<<9, 1>> is [0.9, 0.1]).       *)
(* Squared L2 distances are therefore in hundredths.  float32 scores are   *)
(* fixed-point numbers with FScale units per 1.0.  Positions and FAISS     *)
(* labels are 0-based as in Python; a TLA+ sequence holds Python position  *)
(* p at p + 1.                                                             *)
(***************************************************************************)
EXTENDS Integers, Sequences, FiniteSets, TLC

VARIABLES
    index,                \* rows of the FAISS IndexFlatL2 (self.index)
    chunks_metadata,      \* self.chunks_metadata, parallel to the rows
    pc,                   \* position of the retrieval call in progress
    call,                 \* arguments of the call in progress
    query_embedding,      \* local of retrieve_similar / retrieve_with_mmr
    distances,            \* distances[0] returned by index.search
    candidate_indices,    \* indices[0] returned by index.search
    candidate_chunks,     \* local of retrieve_with_mmr
    candidate_embeddings, \* local of retrieve_with_mmr
    selected_indices,     \* local of retrieve_with_mmr
    selected_chunks,      \* local of retrieve_with_mmr
    result,               \* the list handed back to the caller
    error,                \* the exception that ended the call, "" if none
    embed_requests,       \* client.embeddings.create calls made by the call
    client_raised,        \* the exception the embeddings client raised, "" if none
    retriever_chunks,     \* the attribute retriever.chunks: {} unset, {posts} set
    disk,                 \* data/vector_store.index and data/index_metadata.json
    indexer,              \* the EmbeddingIndexer run of setup_pipeline.py
    other,                \* the frame of a second call on the same retriever
    memory_file,          \* memory/memory.json
    managers,             \* the MemoryManager objects: app.py's cached one, app_test.py's
    posts_logged,         \* log_generated_post calls so far (the timestamps)
    session,              \* st.session_state of app.py
    plagiarism            \* one call of PlagiarismChecker.check_against_chunks

vars == <<index, chunks_metadata, pc, call, query_embedding, distances,
          candidate_indices, candidate_chunks, candidate_embeddings,
          selected_indices, selected_chunks, result, error, embed_requests,
          client_raised, retriever_chunks, disk, indexer, other,
          memory_file, managers, posts_logged, session, plagiarism>>

---------------------------------------------------------------------------
(* Bounds of the model. *)

MaxN == 2          \* longest corpus drawn freely (the fixed corpora have 5)
MaxTopK == 4       \* largest top_k an explicit call passes
MaxFetchK == 5     \* largest fetch_k an explicit retrieve_with_mmr passes

---------------------------------------------------------------------------
(* Numbers: float32 as fixed point.  Quotients are cut toward zero; the    *)
(* cosine of a vector with itself is exactly FScale and no cosine exceeds  *)
(* it, so rounding noise of the last float32 digit is not part of the      *)
(* model.                                                                  *)

FScale == 10000            \* fixed-point units per 1.0
SqrtGuard == 100           \* extra digits carried under the square root
UnitSq == 100              \* 1.0 squared, in squared tenths
FltMax == 2000000000       \* the distance FAISS pads a short result with
LambdaDen == 10            \* lambda_mult is given in tenths

Quot(a, b) == IF a >= 0 THEN a \div b ELSE -((-a) \div b)

Max(a, b) == IF a >= b THEN a ELSE b

Min(a, b) == IF a <= b THEN a ELSE b

RECURSIVE SqrtSearch(_, _, _)
SqrtSearch(x, lo, hi) ==
    IF lo >= hi THEN lo
    ELSE LET mid == (lo + hi + 1) \div 2
         IN IF mid * mid <= x THEN SqrtSearch(x, mid, hi)
            ELSE SqrtSearch(x, lo, mid - 1)

\* floor of the square root of x, 0 <= x < 2^30
ISqrt(x) == SqrtSearch(x, 0, 32767)

---------------------------------------------------------------------------
(* The embedding client: a deterministic stub, one vector per text.  A     *)
(* text is a sequence of tokens; a chunk's text is one token.              *)

Vec == << <<10, 0>>, <<9, 1>>, <<0, 10>>, <<-10, 0>>, <<5, 5>> >>

NVec == Len(Vec)

RECURSIVE SumSeq(_)
SumSeq(s) == IF s = << >> THEN 0 ELSE Head(s) + SumSeq(Tail(s))

Embedding(text) == Vec[((SumSeq(text) + NVec - 1) % NVec) + 1]

Dot(a, b) == a[1] * b[1] + a[2] * b[2]

\* squared Euclidean distance, as IndexFlatL2 reports it
L2Sqr(a, b) == (a[1] - b[1]) * (a[1] - b[1]) + (a[2] - b[2]) * (a[2] - b[2])

---------------------------------------------------------------------------
(* Python list access. *)

\* seq[i] of Python: negative i counts from the end
PyInRange(seq, i) == i < Len(seq) /\ i >= -Len(seq)

PyGet(seq, i) == IF i >= 0 THEN seq[i + 1] ELSE seq[Len(seq) + i + 1]

InSeq(x, s) == \E p \in 1..Len(s) : s[p] = x

\* list.index(x): the first 0-based position of x
ListIndex(s, x) == (CHOOSE p \in 1..Len(s) : s[p] = x /\ \A r \in 1..(p - 1) : s[r] /= x) - 1


---------------------------------------------------------------------------
(* Index construction: EmbeddingIndexer.create_index, save_index, and the  *)
(* load in PostRetriever.__init__.                                         *)

\* ingest.py's chunk records, reduced to the fields retrieval reads
MakeChunks(texts) == [p \in 1..Len(texts) |-> [chunk_id |-> p - 1, text |-> <<texts[p]>>]]

\* one row per chunk, the raw embedding of its text, in chunk order
CreateIndex(chunks) == [p \in 1..Len(chunks) |-> Embedding(chunks[p].text)]

\* the 5-chunk corpus [1,0], [0.9,0.1], [0,1], [-1,0], [0.5,0.5]
ExampleCorpus == <<1, 2, 3, 4, 5>>

\* longer corpora: the example, one whose last chunk is nearest to [1,0]
\* and holds duplicate texts, one that is all duplicates but the last, and
\* [-1,0], [0,1], [1,0], whose rows lie in the reverse of their distance
\* from [1,0]
FixedCorpora == {ExampleCorpus, <<3, 5, 5, 2, 1>>, <<4, 4, 4, 4, 2>>, <<4, 3, 1>>}

Corpora == UNION {[1..n -> 1..NVec] : n \in 0..MaxN} \cup FixedCorpora

---------------------------------------------------------------------------
(* faiss.IndexFlatL2.search: exact k nearest rows by squared L2 distance,  *)
(* ascending, a short result padded with label -1 and distance FltMax.     *)

Closer(ix, qv, r, o) ==
    \/ L2Sqr(qv, ix[r]) < L2Sqr(qv, ix[o])
    \/ L2Sqr(qv, ix[r]) = L2Sqr(qv, ix[o]) /\ r <= o

RECURSIVE NearestOrder(_, _, _)
NearestOrder(ix, qv, rows) ==
    IF rows = {} THEN << >>
    ELSE LET best == CHOOSE r \in rows : \A o \in rows : Closer(ix, qv, r, o)
         IN <<best>> \o NearestOrder(ix, qv, rows \ {best})

IndexSearch(ix, qv, k) ==
    LET order == NearestOrder(ix, qv, 1..Len(ix))
    IN [p \in 1..k |->
          IF p <= Len(ix)
          THEN [label |-> order[p] - 1, distance |-> L2Sqr(qv, ix[order[p]])]
          ELSE [label |-> -1, distance |-> FltMax]]

---------------------------------------------------------------------------
(* Scores. *)

\* 1 / (1 + distance), retrieve.py lines 91 and 140
Relevance(distance) == Quot(FScale * UnitSq, UnitSq + distance)

\* one row of _get_batch_embeddings: the vector divided by its norm, kept
\* as the vector and its squared norm
Normalized(v) == [vec |-> v, norm2 |-> Dot(v, v)]

\* np.dot of two normalised rows: the cosine similarity
NpDot(a, b) ==
    Quot(Dot(a.vec, b.vec) * FScale * SqrtGuard,
         ISqrt(a.norm2 * b.norm2 * SqrtGuard * SqrtGuard))

\* the score with the redundancy term added instead of subtracted
MmrScoreAddsSimilarity(lambda_mult, relevance, max_sim) ==
    lambda_mult * relevance + (LambdaDen - lambda_mult) * max_sim

\* lambda_mult * relevance - (1 - lambda_mult) * max_sim, times LambdaDen
MmrScore(lambda_mult, relevance, max_sim) ==
    lambda_mult * relevance - (LambdaDen - lambda_mult) * max_sim

\* a returned dict: the chunk's fields and the score keys it carries
Returned(chunk, sim, mmr) ==
    [chunk_id |-> chunk.chunk_id, text |-> chunk.text,
     similarity_score |-> sim, mmr_score |-> mmr]

---------------------------------------------------------------------------
(* The inputs callers pass. *)

QueryTexts == {<<1>>, <<5>>}

TopKs == -1..MaxTopK

FetchKs == 0..MaxFetchK

\* lambda_mult in tenths: 0, 0.5 and 1
Lambdas == {0, 5, 10}

\* the 0.9 that app_test.py prints as its lambda
DefaultLambdaNine == 10 - 1

DefaultLambda == 5      \* lambda_mult: float = 0.5
DefaultFetchK == 20     \* fetch_k: int = 20

\* persona_info dicts: any of the keys may be missing
PersonaKeys == {"name", "title", "company", "industry"}

Personas ==
    {[k \in PersonaKeys |-> 1],
     [k \in {"title", "company"} |-> 1]}

Topics == {1, 4}

ProfessionalToken == 4  \* the default 'Professional'
EmptyToken == 0         \* the default ''

\* dict.get(key, default)
DictGet(d, key, default) == IF key \in DOMAIN d THEN d[key] ELSE default

\* the f-string of retrieve_with_context: name, title, company, topic
ContextQuery(persona_info, topic) ==
    <<DictGet(persona_info, "name", ProfessionalToken),
      DictGet(persona_info, "title", EmptyToken),
      DictGet(persona_info, "company", EmptyToken),
      topic>>

---------------------------------------------------------------------------
(* retrieve_similar, lines 86-94: one dict per search hit that passes the  *)
(* idx < len(chunks_metadata) test.                                        *)

PassesFilter(hit, metadata) == hit.label < Len(metadata)

\* whether every chunks_metadata[idx] the comprehension evaluates exists;
\* if one does not, the list access raises IndexError
LookupsInRange(hits, metadata) ==
    \A p \in 1..Len(hits) :
        PassesFilter(hits[p], metadata) => PyInRange(metadata, hits[p].label)

RECURSIVE SimilarResults(_, _)
SimilarResults(hits, metadata) ==
    IF hits = << >> THEN << >>
    ELSE IF PassesFilter(Head(hits), metadata)
         THEN <<Returned(PyGet(metadata, Head(hits).label),
                         {Relevance(Head(hits).distance)}, {})>>
              \o SimilarResults(Tail(hits), metadata)
         ELSE SimilarResults(Tail(hits), metadata)

\* the place in chunks_metadata of the record a returned dict was made from:
\* MakeChunks numbers the records by position
MetadataRow(chunk) == chunk.chunk_id + 1

StoreAfterScoreAliased(metadata, row, scored) == [metadata EXCEPT ![row] = scored]

\* lines 90-91 and 159-160: the dict that gets the score key is a .copy() of
\* chunks_metadata[idx], so the list keeps the record it had
StoreAfterScore(metadata, row, scored) == metadata

\* chunks_metadata after retrieve_similar has scored every dict it returns
RECURSIVE StoreAfterScores(_, _)
StoreAfterScores(metadata, scored) ==
    IF scored = << >> THEN metadata
    ELSE StoreAfterScores(StoreAfterScore(metadata, MetadataRow(Head(scored)), Head(scored)),
                          Tail(scored))

\* lines 116-117: the chunks of the candidates that pass the same test
RECURSIVE CandidateChunks(_, _)
CandidateChunks(hits, metadata) ==
    IF hits = << >> THEN << >>
    ELSE IF PassesFilter(Head(hits), metadata)
         THEN <<PyGet(metadata, Head(hits).label)>> \o CandidateChunks(Tail(hits), metadata)
         ELSE CandidateChunks(Tail(hits), metadata)

---------------------------------------------------------------------------
(* The MMR selection loop, lines 131-161, over the locals of the call.     *)

SetMax(S) == CHOOSE x \in S : \A y \in S : x >= y

\* line 131
LoopCondition ==
    /\ Len(selected_indices) < call.top_k
    /\ Len(selected_indices) < Len(candidate_indices)

\* lines 143-148, for the candidate at 0-based position i
MaxSim(i) ==
    SetMax({0} \cup
           {NpDot(candidate_embeddings[i + 1],
                  candidate_embeddings[ListIndex(candidate_indices, selected_indices[s]) + 1])
              : s \in 1..Len(selected_indices)})

\* lines 140 and 151
CandidateScore(i) ==
    MmrScore(call.lambda_mult, Relevance(distances[i + 1]), MaxSim(i))

\* the for loop without its skip of the selected candidates
UnselectedNoSkip == 0..(Len(candidate_indices) - 1)

\* line 136: the positions the for loop does not skip
Unselected ==
    {i \in 0..(Len(candidate_indices) - 1) : ~InSeq(candidate_indices[i + 1], selected_indices)}

\* lines 146-147: candidate_embeddings[i] of a position the for loop visits
\* lies beyond the chunks that were embedded (IndexError)
EmbeddingLookupFails == \E i \in Unselected : ~PyInRange(candidate_embeddings, i)

NoBest == -1            \* best_idx = None

\* the scan with >= for >: the last position of the highest score
BestIdxLastOfTies ==
    LET scored == {<<i, CandidateScore(i)>> : i \in Unselected}
    IN IF scored = {} THEN NoBest
       ELSE (CHOOSE b \in scored :
                \A o \in scored :
                    \/ b[2] > o[2]
                    \/ b[2] = o[2] /\ b[1] >= o[1])[1]

\* ties between equal scores broken by what another thread is doing
BestIdxTieByOtherCall ==
    LET scored == {<<i, CandidateScore(i)>> : i \in Unselected}
    IN IF scored = {} THEN NoBest
       ELSE (CHOOSE b \in scored :
                \A o \in scored :
                    \/ b[2] > o[2]
                    \/ b[2] = o[2] /\ IF other.pc = "idle" THEN b[1] <= o[1]
                                                           ELSE b[1] >= o[1])[1]

\* lines 132-155: the first position, in candidate order, of the highest score
BestIdx ==
    LET scored == {<<i, CandidateScore(i)>> : i \in Unselected}
    IN IF scored = {} THEN NoBest
       ELSE (CHOOSE b \in scored :
                \A o \in scored :
                    \/ b[2] > o[2]
                    \/ b[2] = o[2] /\ b[1] <= o[1])[1]

\* the seed taken one position late
SeedPositionSecond == 0 + 1

\* position of the candidate the selection is seeded with, lines 124-125
SeedPosition == 0

---------------------------------------------------------------------------
(* The state machine: one retrieval call at a time on one PostRetriever.   *)

NoCall == [op |-> "none", entry |-> "none", query |-> << >>, top_k |-> 0,
           lambda_mult |-> 0, fetch_k |-> 0]

\* the memory, the MemoryManager objects and the session of the interfaces
AppVars == <<memory_file, managers, posts_logged, session>>

ManagerNames == {"app", "app_test"}

\* memory/memory_template.json, reduced to the lists the manager changes
MemoryTemplate ==
    [previous_posts |-> << >>,
     preferences |-> [preferred_hashtags |-> <<1>>, banned_phrases |-> << >>,
                      recurring_themes |-> << >>]]

\* os.path.exists(self.memory_path) is false
NoFile == [exists |-> FALSE, memory |-> MemoryTemplate]

\* a MemoryManager that was not constructed yet
NoManager == [live |-> FALSE, memory |-> MemoryTemplate]

NonePost == -1          \* st.session_state.generated_post = None
EmptyPost == 0          \* the empty string

\* no call of the plagiarism checker is under way
NoCheck == [pc |-> "idle", generated_post |-> << >>, source_chunks |-> << >>,
            threshold |-> 0, result |-> [is_plagiarized |-> FALSE]]

\* initialize_session_state
NewSession == [generated_post |-> NonePost, generation_count |-> 0]

\* a call that has not started: no locals, no result
IdleFrame ==
    [pc |-> "idle", call |-> NoCall, query_embedding |-> << >>, distances |-> << >>,
     candidate_indices |-> << >>, candidate_chunks |-> << >>,
     candidate_embeddings |-> << >>, selected_indices |-> << >>,
     selected_chunks |-> << >>, result |-> << >>, error |-> "",
     embed_requests |-> 0, client_raised |-> ""]

\* an EmbeddingIndexer that is not running: index is None, no chunks
IndexerIdle == [pc |-> "idle", index |-> << >>, chunks_metadata |-> << >>]

\* PostRetriever.__init__, lines 38-41, over files written by save_index
Init ==
    /\ chunks_metadata \in {MakeChunks(texts) : texts \in Corpora}
    /\ index = CreateIndex(chunks_metadata)
    /\ pc = "idle"
    /\ call = NoCall
    /\ query_embedding = << >>
    /\ distances = << >>
    /\ candidate_indices = << >>
    /\ candidate_chunks = << >>
    /\ candidate_embeddings = << >>
    /\ selected_indices = << >>
    /\ selected_chunks = << >>
    /\ result = << >>
    /\ error = ""
    /\ embed_requests = 0
    /\ client_raised = ""
    /\ retriever_chunks = {}
    /\ disk = [index_file |-> index, metadata_file |-> chunks_metadata]
    /\ indexer = IndexerIdle
    /\ other = IdleFrame
    /\ memory_file = NoFile
    /\ managers = [m \in ManagerNames |-> NoManager]
    /\ posts_logged = 0
    /\ session = NewSession
    /\ plagiarism = NoCheck

Locals == <<query_embedding, distances, candidate_indices, candidate_chunks,
            candidate_embeddings, selected_indices, selected_chunks>>

\* what no retrieval call touches: the attribute chunks, the files, the
\* indexer's run and the frame of another call
Env == <<retriever_chunks, disk, indexer, other, AppVars, plagiarism>>

\* the exception types of the embeddings client; one stands for all
ClientErrors == {"EmbeddingError"}

\* a caller enters retrieve_similar(query, top_k)
RetrieveSimilar ==
    /\ pc = "idle"
    /\ pc' = "embed_query"
    /\ \E q \in QueryTexts, k \in TopKs :
          call' = [op |-> "similar", entry |-> "similar", query |-> q, top_k |-> k,
                   lambda_mult |-> 0, fetch_k |-> 0]
    /\ UNCHANGED <<client_raised, Env>>
    /\ UNCHANGED <<index, chunks_metadata, Locals, result, error, embed_requests>>

\* a caller enters retrieve_with_mmr(query, top_k, lambda_mult, fetch_k)
RetrieveWithMmr ==
    /\ pc = "idle"
    /\ pc' = "embed_query"
    /\ \E q \in QueryTexts, k \in TopKs, l \in Lambdas, f \in FetchKs :
          call' = [op |-> "mmr", entry |-> "mmr", query |-> q, top_k |-> k,
                   lambda_mult |-> l, fetch_k |-> f]
    /\ UNCHANGED <<client_raised, Env>>
    /\ UNCHANGED <<index, chunks_metadata, Locals, result, error, embed_requests>>

\* retrieve_with_context, lines 192-201: build the query and dispatch
RetrieveWithContext ==
    /\ pc = "idle"
    /\ pc' = "embed_query"
    /\ \E persona_info \in Personas, topic \in Topics, k \in TopKs, use_mmr \in BOOLEAN :
          call' = [op |-> IF use_mmr THEN "mmr" ELSE "similar", entry |-> "context",
                   query |-> ContextQuery(persona_info, topic), top_k |-> k,
                   lambda_mult |-> IF use_mmr THEN DefaultLambda ELSE 0,
                   fetch_k |-> IF use_mmr THEN DefaultFetchK ELSE 0]
    /\ UNCHANGED <<client_raised, Env>>
    /\ UNCHANGED <<index, chunks_metadata, Locals, result, error, embed_requests>>

\* the exception caught and an empty list handed back instead
RaiseSwallowed(e) ==
    /\ pc' = "returned"
    /\ error' = ""
    /\ result' = << >>

\* an exception leaves the call: no return value
Raise(e) ==
    /\ pc' = "raised"
    /\ error' = e
    /\ result' = << >>

\* generate_query_embedding, lines 56-66: the request succeeds
GenerateQueryEmbedding ==
    /\ pc = "embed_query"
    /\ embed_requests' = embed_requests + 1
    /\ query_embedding' = Embedding(call.query)
    /\ pc' = IF call.op = "similar" THEN "similar_search" ELSE "mmr_search"
    /\ UNCHANGED <<client_raised, Env>>
    /\ UNCHANGED <<index, chunks_metadata, call, distances, candidate_indices,
                   candidate_chunks, candidate_embeddings, selected_indices,
                   selected_chunks, result, error>>

\* generate_query_embedding, lines 63-65: the request fails and is re-raised
GenerateQueryEmbeddingFails ==
    /\ pc = "embed_query"
    /\ embed_requests' = embed_requests + 1
    /\ \E e \in ClientErrors :
          /\ client_raised' = e
          /\ Raise(e)
    /\ UNCHANGED Env
    /\ UNCHANGED <<index, chunks_metadata, call, Locals>>

\* retrieve_similar, lines 84-94.  index.search asserts k > 0; a lookup
\* chunks_metadata[idx] outside the list raises IndexError.
SimilarSearch ==
    /\ pc = "similar_search"
    /\ IF call.top_k <= 0
       THEN /\ Raise("AssertionError")
            /\ UNCHANGED <<distances, candidate_indices>>
       ELSE LET hits == IndexSearch(index, query_embedding, call.top_k)
            IN /\ distances' = [p \in 1..Len(hits) |-> hits[p].distance]
               /\ candidate_indices' = [p \in 1..Len(hits) |-> hits[p].label]
               /\ IF LookupsInRange(hits, chunks_metadata)
                  THEN /\ result' = SimilarResults(hits, chunks_metadata)
                       /\ pc' = "returned"
                       /\ error' = ""
                  ELSE Raise("IndexError")
    /\ chunks_metadata' = IF pc' = "returned"
                          THEN StoreAfterScores(chunks_metadata, result')
                          ELSE chunks_metadata
    /\ UNCHANGED <<client_raised, Env>>
    /\ UNCHANGED <<index, call, query_embedding, candidate_chunks,
                   candidate_embeddings, selected_indices, selected_chunks,
                   embed_requests>>

\* retrieve_with_mmr, lines 112-125: search, candidate chunks, seed
MmrSearch ==
    /\ pc = "mmr_search"
    /\ IF call.fetch_k <= 0
       THEN /\ Raise("AssertionError")
            /\ UNCHANGED <<distances, candidate_indices, candidate_chunks,
                           selected_indices, selected_chunks>>
       ELSE LET hits == IndexSearch(index, query_embedding, call.fetch_k)
                labels == [p \in 1..Len(hits) |-> hits[p].label]
                found == IF LookupsInRange(hits, chunks_metadata)
                         THEN CandidateChunks(hits, chunks_metadata)
                         ELSE << >>
            IN /\ distances' = [p \in 1..Len(hits) |-> hits[p].distance]
               /\ candidate_indices' = labels
               /\ candidate_chunks' = found
               /\ IF /\ LookupsInRange(hits, chunks_metadata)
                     /\ PyInRange(found, SeedPosition)
                  THEN /\ selected_indices' = <<PyGet(labels, SeedPosition)>>
                       /\ selected_chunks' = <<Returned(PyGet(found, SeedPosition), {}, {})>>
                       /\ pc' = "mmr_batch_embed"
                       /\ UNCHANGED <<result, error>>
                  ELSE /\ UNCHANGED <<selected_indices, selected_chunks>>
                       /\ Raise("IndexError")
    /\ UNCHANGED <<client_raised, Env>>
    /\ UNCHANGED <<index, chunks_metadata, call, query_embedding,
                   candidate_embeddings, embed_requests>>

\* _get_batch_embeddings, lines 128-129 and 167-175: the request succeeds
GetBatchEmbeddings ==
    /\ pc = "mmr_batch_embed"
    /\ embed_requests' = embed_requests + 1
    /\ candidate_embeddings' =
          [p \in 1..Len(candidate_chunks) |-> Normalized(Embedding(candidate_chunks[p].text))]
    /\ pc' = "mmr_loop"
    /\ UNCHANGED <<client_raised, Env>>
    /\ UNCHANGED <<index, chunks_metadata, call, query_embedding, distances,
                   candidate_indices, candidate_chunks, selected_indices,
                   selected_chunks, result, error>>

\* _get_batch_embeddings: the request fails; nothing catches it
GetBatchEmbeddingsFails ==
    /\ pc = "mmr_batch_embed"
    /\ embed_requests' = embed_requests + 1
    /\ \E e \in ClientErrors :
          /\ client_raised' = e
          /\ Raise(e)
    /\ UNCHANGED Env
    /\ UNCHANGED <<index, chunks_metadata, call, Locals>>

\* one pass of the while loop, lines 131-161; with best_idx = None nothing
\* is appended and the loop comes round again in the same state
MmrIterate ==
    /\ pc = "mmr_loop"
    /\ LoopCondition
    /\ IF EmbeddingLookupFails
       THEN /\ Raise("IndexError")
            /\ UNCHANGED <<chunks_metadata, selected_indices, selected_chunks>>
       ELSE LET best_idx == BestIdx
            IN /\ IF best_idx /= NoBest
                  THEN LET chunk == Returned(candidate_chunks[best_idx + 1], {},
                                             {CandidateScore(best_idx)})
                       IN /\ selected_indices' =
                                Append(selected_indices, candidate_indices[best_idx + 1])
                          /\ selected_chunks' = Append(selected_chunks, chunk)
                          /\ chunks_metadata' =
                                StoreAfterScore(chunks_metadata, MetadataRow(chunk), chunk)
                  ELSE UNCHANGED <<chunks_metadata, selected_indices, selected_chunks>>
               /\ UNCHANGED <<pc, result, error>>
    /\ UNCHANGED <<client_raised, Env>>
    /\ UNCHANGED <<index, call, query_embedding, distances,
                   candidate_indices, candidate_chunks, candidate_embeddings,
                   embed_requests>>

\* the selection sorted by distance before it is handed back
MmrReturnSortedByRelevance ==
    /\ pc = "mmr_loop"
    /\ ~LoopCondition
    /\ LET order == SortSeq([p \in 1..Len(selected_indices) |->
                               [position |-> ListIndex(candidate_indices, selected_indices[p]),
                                chunk |-> selected_chunks[p]]],
                            LAMBDA a, b : a.position < b.position)
       IN result' = [p \in 1..Len(order) |-> order[p].chunk]
    /\ pc' = "returned"
    /\ UNCHANGED <<client_raised, Env>>
    /\ UNCHANGED <<index, chunks_metadata, call, Locals, error, embed_requests>>

\* line 163
MmrReturn ==
    /\ pc = "mmr_loop"
    /\ ~LoopCondition
    /\ result' = selected_chunks
    /\ pc' = "returned"
    /\ UNCHANGED <<client_raised, Env>>
    /\ UNCHANGED <<index, chunks_metadata, call, Locals, error, embed_requests>>

\* the caller takes the result or the exception; the locals are gone
Finish ==
    /\ pc \in {"returned", "raised"}
    /\ pc' = "idle"
    /\ call' = NoCall
    /\ query_embedding' = << >>
    /\ distances' = << >>
    /\ candidate_indices' = << >>
    /\ candidate_chunks' = << >>
    /\ candidate_embeddings' = << >>
    /\ selected_indices' = << >>
    /\ selected_chunks' = << >>
    /\ result' = << >>
    /\ error' = ""
    /\ embed_requests' = 0
    /\ client_raised' = ""
    /\ UNCHANGED <<index, chunks_metadata, Env>>

Next ==
    \/ RetrieveSimilar
    \/ RetrieveWithMmr
    \/ RetrieveWithContext
    \/ GenerateQueryEmbedding
    \/ GenerateQueryEmbeddingFails
    \/ SimilarSearch
    \/ MmrSearch
    \/ GetBatchEmbeddings
    \/ GetBatchEmbeddingsFails
    \/ MmrIterate
    \/ MmrReturn
    \/ Finish

Spec == Init /\ [][Next]_vars

---------------------------------------------------------------------------
(* Vocabulary of the properties. *)

N == Len(index)

Returns == pc = "returned"

Ends == pc \in {"returned", "raised"}

ChunkIds(chunks) == [p \in 1..Len(chunks) |-> chunks[p].chunk_id]

Distinct(s) == \A p, r \in 1..Len(s) : p /= r => s[p] /= s[r]

\* what retrieve_similar returns for the query and top_k of the call in progress
PlainAnswer ==
    SimilarResults(IndexSearch(index, Embedding(call.query), call.top_k), chunks_metadata)

\* the candidates the index really holds for the call: min(fetch_k, N)
PoolSize == Min(call.fetch_k, N)

ScoreOf(chunk) == CHOOSE x \in chunk.similarity_score : TRUE

NonIncreasing(chunks) ==
    \A p \in 1..(Len(chunks) - 1) : ScoreOf(chunks[p]) >= ScoreOf(chunks[p + 1])

---------------------------------------------------------------------------
(* Properties of retrieve_similar and retrieve_with_mmr. *)

\* C1: on an index of N >= 1 entries retrieve_similar(q, k) with k >= 1
\* returns exactly min(k, N) results, in non-increasing similarity_score.
C1_SimilarReturnsMinKN ==
    (Ends /\ call.op = "similar" /\ N >= 1 /\ call.top_k >= 1
          /\ error /= "EmbeddingError")
        => /\ Returns
           /\ Len(result) = Min(call.top_k, N)
           /\ NonIncreasing(result)

\* C2: every pass of the selection loop of retrieve_with_mmr on a non-empty
\* index either ends the loop or selects one more candidate, so the loop
\* stops once |selected| = top_k or no unselected candidate remains.
C2_MmrLoopTerminates ==
    (pc = "mmr_loop" /\ N >= 1) => (~LoopCondition \/ BestIdx /= NoBest)

C4_MmrSmallPoolReturnsAll ==
    (call.op = "mmr" /\ pc \in {"mmr_loop", "returned", "raised"}
         /\ N >= 1 /\ call.fetch_k >= 1 /\ N < call.top_k
         /\ error /= "EmbeddingError")
        => /\ pc /= "raised"
           /\ Len(selected_chunks) <= PoolSize
           /\ Distinct(ChunkIds(selected_chunks))
           /\ Returns => Len(result) = PoolSize

\* C5: against a zero-entry index retrieve_similar and retrieve_with_mmr
\* return an empty sequence and do not raise (the query embedding succeeding).
C5_EmptyIndexReturnsEmpty ==
    (Ends /\ N = 0 /\ call.top_k >= 1 /\ error /= "EmbeddingError"
          /\ (call.op = "mmr" => call.fetch_k >= 1))
        => Returns /\ result = << >>

\* the call of the example: the 5-chunk corpus, query [1,0], top_k = 2,
\* lambda = 0.5, fetch_k = 5
ExampleCall ==
    /\ chunks_metadata = MakeChunks(ExampleCorpus)
    /\ call.entry = "mmr"
    /\ call.query = <<1>>
    /\ call.top_k = 2
    /\ call.lambda_mult = 5
    /\ call.fetch_k = 5

\* C6: on the example, retrieve_with_mmr returns the chunk of [1,0] first
\* and the chunk of [0,1] second.
C6_ExampleSecondPickIsOrthogonal ==
    (Returns /\ ExampleCall)
        => /\ Len(result) = 2
           /\ Embedding(result[1].text) = <<10, 0>>
           /\ Embedding(result[2].text) = <<0, 10>>

C6_Witness == Returns /\ ExampleCall /\ Len(result) = 2

\* C7: for every lambda and top_k >= 1 on a non-empty index, the first
\* element retrieve_with_mmr returns is the nearest row to the query, the
\* chunk retrieve_similar returns first for the same query and k.
C7_MmrFirstIsNearest ==
    (Returns /\ call.op = "mmr" /\ call.top_k >= 1 /\ N >= 1)
        => /\ Len(result) >= 1
           /\ result[1].chunk_id = PlainAnswer[1].chunk_id
           /\ \A r \in 1..N :
                 L2Sqr(query_embedding, index[result[1].chunk_id + 1])
                     <= L2Sqr(query_embedding, index[r])

\* a call with lambda = 1 on a corpus whose nearest row is not row 0
C7_Witness ==
    /\ Returns /\ call.op = "mmr" /\ call.top_k >= 1 /\ N >= 2
    /\ call.lambda_mult = LambdaDen
    /\ Len(result) >= 1
    /\ result[1].chunk_id /= 0
    /\ result[1].chunk_id = PlainAnswer[1].chunk_id

\* C8: with lambda = 1 and k <= min(fetch_k, N), retrieve_with_mmr returns
\* the chunks of retrieve_similar(q, k), in the same order.
C8_LambdaOneIsPlainRanking ==
    (Returns /\ call.op = "mmr" /\ call.lambda_mult = LambdaDen
             /\ call.top_k >= 1 /\ call.top_k <= PoolSize)
        => ChunkIds(result) = ChunkIds(PlainAnswer)

\* lambda = 1, three or more chunks returned, in an order that is not the
\* row order
C8_Witness ==
    /\ Returns /\ call.op = "mmr" /\ call.lambda_mult = LambdaDen
    /\ call.top_k >= 3 /\ call.top_k <= PoolSize
    /\ ChunkIds(result) = ChunkIds(PlainAnswer)
    /\ \E p \in 1..(Len(result) - 1) : result[p].chunk_id > result[p + 1].chunk_id

\* C9: for every integer top_k both retrievals return at most
\* max(0, min(top_k, N)) results, none for top_k <= 0.
C9_AtMostMinKN ==
    Returns => Len(result) <= Max(0, Min(call.top_k, N))

\* C10: every retrieval call that returns has made exactly one request to
\* the embedding client.
C10_OneEmbeddingRequest ==
    Returns => embed_requests = 1

---------------------------------------------------------------------------
(* The retriever between and across calls.                                 *)

FrameVars == <<pc, call, Locals, result, error, embed_requests, client_raised>>

\* the call in progress: its position, arguments, locals and outcome
CurrentFrame ==
    [pc |-> pc, call |-> call, query_embedding |-> query_embedding,
     distances |-> distances, candidate_indices |-> candidate_indices,
     candidate_chunks |-> candidate_chunks,
     candidate_embeddings |-> candidate_embeddings,
     selected_indices |-> selected_indices, selected_chunks |-> selected_chunks,
     result |-> result, error |-> error, embed_requests |-> embed_requests,
     client_raised |-> client_raised]

\* C11: no retrieval call changes the retriever's index or chunks_metadata
\* (they stay what __init__ loaded from the files), also when the call is
\* abandoned by an exception, and between two calls nothing of a call is left.
C11_CallsLeaveRetrieverAlone ==
    /\ index = disk.index_file
    /\ chunks_metadata = disk.metadata_file
    /\ (pc = "idle" => CurrentFrame = IdleFrame)

\* retrieve_with_mmr has written an mmr_score on a dict and returned it
C11_Witness ==
    /\ Returns /\ call.op = "mmr"
    /\ \E p \in 1..Len(result) : result[p].mmr_score /= {}
    /\ chunks_metadata = disk.metadata_file

---------------------------------------------------------------------------
(* The applications around the retriever: setup_pipeline.py runs           *)
(* src/indexer.py, which writes the two files; interface/app.py and        *)
(* interface/app_test.py construct a PostRetriever from them, and          *)
(* app_test.py then replaces its index by one built from the user's posts. *)

AppCorpora == {<<1>>, <<1, 3>>}            \* data/cleaned_chunks.json
UserCorpora == {<<3>>, <<1, 3, 4>>}        \* the posts pasted into app_test.py
AppTopKs == {3}                            \* app.py's slider, 3 to 10
AppTestTopK == 5                           \* app_test.py: min(5, len(retriever.chunks))

\* app_test.py, lines 104-131: the user's posts as records
MakeUserPosts(texts) == [p \in 1..Len(texts) |-> [id |-> p, text |-> <<texts[p]>>]]

InitApp ==
    /\ Init
    /\ chunks_metadata \in {MakeChunks(texts) : texts \in AppCorpora}

\* indexer.py main, lines 149-158: create_index over the cleaned chunks
IndexerCreateIndex ==
    /\ indexer.pc = "idle"
    /\ \E texts \in AppCorpora :
          indexer' = [pc |-> "created", index |-> CreateIndex(MakeChunks(texts)),
                      chunks_metadata |-> MakeChunks(texts)]
    /\ UNCHANGED <<index, chunks_metadata, FrameVars, retriever_chunks, disk, other, AppVars, plagiarism>>

\* EmbeddingIndexer.load_index, lines 122-128: both files are read, nothing
\* compares them
IndexerLoadIndex ==
    /\ indexer.pc = "idle"
    /\ indexer' = [pc |-> "loaded", index |-> disk.index_file,
                   chunks_metadata |-> disk.metadata_file]
    /\ UNCHANGED <<index, chunks_metadata, FrameVars, retriever_chunks, disk, other, AppVars, plagiarism>>

\* save_index, line 105: faiss.write_index
SaveIndexWriteIndex ==
    /\ indexer.pc \in {"created", "loaded"}
    /\ disk' = [disk EXCEPT !.index_file = indexer.index]
    /\ indexer' = [indexer EXCEPT !.pc = "index_written"]
    /\ UNCHANGED <<index, chunks_metadata, FrameVars, retriever_chunks, other, AppVars, plagiarism>>

\* save_index, lines 109-110: json.dump of the metadata; the run ends
SaveIndexWriteMetadata ==
    /\ indexer.pc = "index_written"
    /\ disk' = [disk EXCEPT !.metadata_file = indexer.chunks_metadata]
    /\ indexer' = IndexerIdle
    /\ UNCHANGED <<index, chunks_metadata, FrameVars, retriever_chunks, other, AppVars, plagiarism>>

\* PostRetriever.__init__, lines 38-41: a new retriever over the files as
\* they are now; nothing compares the two
Construct ==
    /\ pc = "idle"
    /\ index' = disk.index_file
    /\ chunks_metadata' = disk.metadata_file
    /\ retriever_chunks' = {}
    /\ UNCHANGED <<FrameVars, disk, indexer, other, AppVars, plagiarism>>

\* app_test.py, lines 173-188: a new retriever, then its index replaced by
\* the user's and the attribute chunks (not chunks_metadata) set
AppTestSwapUserIndex ==
    /\ pc = "idle"
    /\ \E texts \in UserCorpora :
          /\ index' = [p \in 1..Len(texts) |-> Embedding(<<texts[p]>>)]
          /\ retriever_chunks' = {MakeUserPosts(texts)}
    /\ chunks_metadata' = disk.metadata_file
    /\ UNCHANGED <<FrameVars, disk, indexer, other, AppVars, plagiarism>>

\* app_test.py, lines 211-223: len(retriever.chunks) raises AttributeError
\* on a retriever whose attribute was never set
AppTestRetrieve ==
    /\ pc = "idle"
    /\ IF retriever_chunks = {}
       THEN /\ Raise("AttributeError")
            /\ UNCHANGED call
       ELSE /\ pc' = "embed_query"
            /\ \E persona_info \in Personas, topic \in Topics, posts \in retriever_chunks :
                  call' = [op |-> "mmr", entry |-> "context",
                           query |-> ContextQuery(persona_info, topic),
                           top_k |-> Min(AppTestTopK, Len(posts)),
                           lambda_mult |-> DefaultLambda, fetch_k |-> DefaultFetchK]
            /\ UNCHANGED <<result, error>>
    /\ UNCHANGED <<index, chunks_metadata, Locals, embed_requests, client_raised, Env>>

\* app.py, lines 216-221, on the cached retriever
AppGenerate ==
    /\ pc = "idle"
    /\ pc' = "embed_query"
    /\ \E persona_info \in Personas, topic \in Topics, k \in AppTopKs, use_mmr \in BOOLEAN :
          call' = [op |-> IF use_mmr THEN "mmr" ELSE "similar", entry |-> "context",
                   query |-> ContextQuery(persona_info, topic), top_k |-> k,
                   lambda_mult |-> IF use_mmr THEN DefaultLambda ELSE 0,
                   fetch_k |-> IF use_mmr THEN DefaultFetchK ELSE 0]
    /\ UNCHANGED <<index, chunks_metadata, Locals, result, error, embed_requests,
                   client_raised, Env>>

NextApp ==
    \/ IndexerCreateIndex
    \/ IndexerLoadIndex
    \/ SaveIndexWriteIndex
    \/ SaveIndexWriteMetadata
    \/ Construct
    \/ AppTestSwapUserIndex
    \/ AppTestRetrieve
    \/ AppGenerate
    \/ GenerateQueryEmbedding
    \/ GenerateQueryEmbeddingFails
    \/ SimilarSearch
    \/ MmrSearch
    \/ GetBatchEmbeddings
    \/ GetBatchEmbeddingsFails
    \/ MmrIterate
    \/ MmrReturn
    \/ Finish

SpecApp == InitApp /\ [][NextApp]_vars

\* the states in which the retriever answers: index.search at line 85 or 112
Answering == pc \in {"similar_search", "mmr_search"}

\* C12: whenever a PostRetriever answers a retrieval, the index holds as
\* many vectors as chunks_metadata holds records, and row i is the embedding
\* of the text of record i.
C12_RowsMatchMetadata ==
    Answering =>
        /\ Len(index) = Len(chunks_metadata)
        /\ \A p \in 1..Len(index) : index[p] = Embedding(chunks_metadata[p].text)

\* C13: a load from files whose row count differs from the record count does
\* not give a usable retriever (one that was constructed and not given
\* another index) or a loaded indexer.
C13_MismatchedLoadFails ==
    /\ retriever_chunks = {} => Len(index) = Len(chunks_metadata)
    /\ indexer.pc = "loaded" => Len(indexer.index) = Len(indexer.chunks_metadata)

---------------------------------------------------------------------------
(* Failures of the embeddings client.                                      *)

\* C14: when an embedding request of a retrieval call fails, the call ends
\* with the client's exception, unchanged in type, hands back no list, and
\* the failed request was the call's last one (no retry): the first for the
\* query embedding, the second for the candidates of retrieve_with_mmr.
C14_EmbeddingFailurePropagates ==
    client_raised /= "" =>
        /\ pc = "raised"
        /\ error = client_raised
        /\ result = << >>
        /\ embed_requests = IF selected_indices = << >> THEN 1 ELSE 2

\* retrieve_with_mmr loses the batch request after the seed was chosen
C14_Witness ==
    /\ client_raised /= ""
    /\ pc = "raised"
    /\ call.op = "mmr"
    /\ selected_indices /= << >>

---------------------------------------------------------------------------
(* What a call returns, as a function of the retriever and the arguments:  *)
(* retrieve_with_mmr run alone from line 109 to line 163.                  *)

\* lines 133-155 for the selection sel over the candidates c: the position
\* picked with its score, or NoBest
MmrPick(c, sel) ==
    LET unselected == {i \in 0..(Len(c.labels) - 1) : ~InSeq(c.labels[i + 1], sel)}
        max_sim(i) ==
            SetMax({0} \cup {NpDot(c.embeddings[i + 1],
                                   c.embeddings[ListIndex(c.labels, sel[s]) + 1])
                               : s \in 1..Len(sel)})
        scored == {<<i, MmrScore(c.lambda_mult, Relevance(c.distances[i + 1]), max_sim(i))>>
                     : i \in unselected}
    IN IF scored = {} THEN <<NoBest, 0>>
       ELSE CHOOSE b \in scored :
               \A o \in scored : b[2] > o[2] \/ (b[2] = o[2] /\ b[1] <= o[1])

\* lines 131-163: the list returned once the while loop ends.  (With no pick
\* left the loop of the code does not end; the list so far stands for it.)
RECURSIVE MmrSelect(_, _, _)
MmrSelect(c, sel, out) ==
    IF ~(Len(sel) < c.top_k /\ Len(sel) < Len(c.labels)) THEN out
    ELSE LET best == MmrPick(c, sel)
         IN IF best[1] = NoBest THEN out
            ELSE MmrSelect(c, Append(sel, c.labels[best[1] + 1]),
                           Append(out, Returned(c.chunks[best[1] + 1], {}, {best[2]})))

\* retrieve_with_mmr(query, top_k, lambda_mult, fetch_k) over index ix and
\* records metadata, for a call that returns
MmrAnswer(ix, metadata, query, top_k, lambda_mult, fetch_k) ==
    LET hits == IndexSearch(ix, Embedding(query), fetch_k)
        found == CandidateChunks(hits, metadata)
        c == [labels |-> [p \in 1..Len(hits) |-> hits[p].label],
              distances |-> [p \in 1..Len(hits) |-> hits[p].distance],
              chunks |-> found,
              embeddings |-> [p \in 1..Len(found) |-> Normalized(Embedding(found[p].text))],
              lambda_mult |-> lambda_mult, top_k |-> top_k]
    IN MmrSelect(c, <<c.labels[1]>>, <<Returned(found[1], {}, {})>>)

\* persona_info with the key industry removed, or set to v
WithIndustry(persona_info, v) ==
    [k \in (DOMAIN persona_info) \cup {"industry"} |->
        IF k = "industry" THEN v ELSE persona_info[k]]

WithoutIndustry(persona_info) ==
    [k \in (DOMAIN persona_info) \ {"industry"} |-> persona_info[k]]

---------------------------------------------------------------------------
(* The score keys of the returned dicts.                                   *)

\* C17: every element retrieve_similar returns carries a similarity_score,
\* and every element retrieve_with_mmr returns, at every position, carries
\* an mmr_score.
C17_EveryElementScored ==
    Returns =>
        \A p \in 1..Len(result) :
            /\ call.op = "similar" => result[p].similarity_score /= {}
            /\ call.op = "mmr" => result[p].mmr_score /= {}

---------------------------------------------------------------------------
(* Two calls at once on the one PostRetriever that app.py caches           *)
(* (load_components, @st.cache_resource): each session's script runs in a  *)
(* thread of its own and the threads take turns at any point.  The locals  *)
(* of a call belong to its thread; `other` holds those of the thread that  *)
(* is not running.                                                         *)

ConcCorpora == {ExampleCorpus, <<3, 5, 5, 2, 1>>}

InitConc ==
    /\ Init
    /\ chunks_metadata \in {MakeChunks(texts) : texts \in ConcCorpora}

\* the threads share selected_indices and selected_chunks, as if these were
\* attributes of the retriever
SwitchSharedSelection ==
    /\ CurrentFrame /= other
    /\ other' = [CurrentFrame EXCEPT !.selected_indices = other.selected_indices,
                                     !.selected_chunks = other.selected_chunks]
    /\ pc' = other.pc
    /\ call' = other.call
    /\ query_embedding' = other.query_embedding
    /\ distances' = other.distances
    /\ candidate_indices' = other.candidate_indices
    /\ candidate_chunks' = other.candidate_chunks
    /\ candidate_embeddings' = other.candidate_embeddings
    /\ result' = other.result
    /\ error' = other.error
    /\ embed_requests' = other.embed_requests
    /\ client_raised' = other.client_raised
    /\ UNCHANGED <<index, chunks_metadata, selected_indices, selected_chunks,
                   retriever_chunks, disk, indexer, AppVars, plagiarism>>

\* the running thread is suspended and the other one resumed: every local
\* of lines 82-94 and 109-163 goes with its thread
Switch ==
    /\ CurrentFrame /= other
    /\ other' = CurrentFrame
    /\ pc' = other.pc
    /\ call' = other.call
    /\ query_embedding' = other.query_embedding
    /\ distances' = other.distances
    /\ candidate_indices' = other.candidate_indices
    /\ candidate_chunks' = other.candidate_chunks
    /\ candidate_embeddings' = other.candidate_embeddings
    /\ selected_indices' = other.selected_indices
    /\ selected_chunks' = other.selected_chunks
    /\ result' = other.result
    /\ error' = other.error
    /\ embed_requests' = other.embed_requests
    /\ client_raised' = other.client_raised
    /\ UNCHANGED <<index, chunks_metadata, retriever_chunks, disk, indexer, AppVars, plagiarism>>

NextConc ==
    \/ AppGenerate
    \/ Switch
    \/ GenerateQueryEmbedding
    \/ GenerateQueryEmbeddingFails
    \/ SimilarSearch
    \/ MmrSearch
    \/ GetBatchEmbeddings
    \/ GetBatchEmbeddingsFails
    \/ MmrIterate
    \/ MmrReturn
    \/ Finish

SpecConc == InitConc /\ [][NextConc]_vars

\* what the call with arguments c returns when it runs alone
AnswerAlone(c) ==
    IF c.op = "similar"
    THEN SimilarResults(IndexSearch(index, Embedding(c.query), c.top_k), chunks_metadata)
    ELSE MmrAnswer(index, chunks_metadata, c.query, c.top_k, c.lambda_mult, c.fetch_k)

\* C18: however two calls on the shared retriever interleave, each returns
\* what it returns when run alone, and index and chunks_metadata stay what
\* was loaded.
C18_ConcurrentCallsAsAlone ==
    /\ index = disk.index_file
    /\ chunks_metadata = disk.metadata_file
    /\ pc = "returned" => result = AnswerAlone(call)
    /\ other.pc = "returned" => other.result = AnswerAlone(other.call)

\* a retrieve_with_mmr call has returned three chunks while a call with
\* another query sits suspended inside its selection loop
C18_Witness ==
    /\ pc = "returned" /\ call.op = "mmr" /\ Len(result) >= 3
    /\ other.pc = "mmr_loop" /\ Len(other.selected_indices) >= 2
    /\ other.call.query /= call.query
    /\ result = AnswerAlone(call)

---------------------------------------------------------------------------
(* Two calls with the same arguments.                                      *)

SameArguments(a, b) ==
    /\ a.op = b.op
    /\ a.query = b.query
    /\ a.top_k = b.top_k
    /\ a.lambda_mult = b.lambda_mult
    /\ a.fetch_k = b.fetch_k

---------------------------------------------------------------------------
(* The similarity score in float32.  index.search returns float32          *)
(* distances and `1 / (1 + distance)` stays in float32 (line 91).  A       *)
(* float32 is a record [m, e] of value m * 2^e with 2^23 <= m < 2^24, or   *)
(* m = 0 for zero; sums and quotients are rounded to nearest, ties to the  *)
(* even mantissa.                                                          *)

F32Hidden == 2^23

F32Zero == [m |-> 0, e |-> 0]

F32One == [m |-> F32Hidden, e |-> -23]

BitLength(s) == CHOOSE n \in 1..30 : 2^(n - 1) <= s /\ s < 2^n

\* the float32 nearest to s * 2^e, for an integer 0 < s < 2^30
F32Round(s, e) ==
    LET k == BitLength(s) - 24
    IN IF k <= 0 THEN [m |-> s * 2^(-k), e |-> e + k]
       ELSE LET q == s \div 2^k
                r == s % 2^k
                h == 2^(k - 1)
                up == IF r > h \/ (r = h /\ q % 2 = 1) THEN q + 1 ELSE q
            IN IF up = 2 * F32Hidden THEN [m |-> F32Hidden, e |-> e + k + 1]
               ELSE [m |-> up, e |-> e + k]

\* 1 + distance, for a distance that is zero or from 2^-6 up to 2^29
F32AddOne(d) ==
    IF d.m = 0 THEN F32One
    ELSE LET s == Min(d.e, 0)
         IN F32Round(d.m * 2^(d.e - s) + 2^(-s), s)

\* n more binary digits of r / m: <<digits, remainder>>
RECURSIVE LongDivision(_, _, _, _)
LongDivision(r, m, q, n) ==
    IF n = 0 THEN <<q, r>>
    ELSE IF 2 * r >= m THEN LongDivision(2 * r - m, m, 2 * q + 1, n - 1)
         ELSE LongDivision(2 * r, m, 2 * q, n - 1)

\* 1 / x for a float32 x >= 1
F32Reciprocal(x) ==
    LET d == LongDivision(IF x.m = F32Hidden THEN 0 ELSE F32Hidden, x.m,
                          IF x.m = F32Hidden THEN 1 ELSE 0, 24)
        q == d[1]
        r == d[2]
        up == IF 2 * r > x.m \/ (2 * r = x.m /\ q % 2 = 1) THEN q + 1 ELSE q
    IN IF up = 2 * F32Hidden THEN [m |-> F32Hidden, e |-> -46 - x.e]
       ELSE [m |-> up, e |-> -47 - x.e]

F32Less(a, b) ==
    IF a.m = 0 \/ b.m = 0 THEN a.m = 0 /\ b.m > 0
    ELSE a.e < b.e \/ (a.e = b.e /\ a.m < b.m)

\* the sum where the quotient belongs
SimilarityScoreNoReciprocal(distance) == F32AddOne(distance)

\* line 91: float(1 / (1 + distance))
SimilarityScore32(distance) == F32Reciprocal(F32AddOne(distance))

MaxUlp == 3       \* mantissas up to so many units above a power of two

\* the distances index.search hands back: zero, and floats at and just above
\* 2^-6, 0.25, 0.5, 1, 2, 4 and 2^24
Float32Distances ==
    {F32Zero} \cup {[m |-> F32Hidden + u, e |-> x] :
                       u \in 0..MaxUlp, x \in {-29, -25, -24, -23, -22, -21, 1}}

ScoreCorpus == <<1, 3>>

InitScore ==
    /\ Init
    /\ chunks_metadata = MakeChunks(ScoreCorpus)

\* lines 84-85 on a two-row index: the two hits come back nearest first
ScoreSearch ==
    /\ pc = "idle"
    /\ pc' = "scoring"
    /\ \E query \in QueryTexts :
          /\ call' = [op |-> "similar", entry |-> "similar", query |-> query,
                      top_k |-> 2, lambda_mult |-> 0, fetch_k |-> 0]
          /\ query_embedding' = Embedding(query)
    /\ embed_requests' = 1
    /\ \E d1, d2 \in Float32Distances :
          /\ ~F32Less(d2, d1)
          /\ distances' = <<d1, d2>>
    /\ \E first \in {0, 1} : candidate_indices' = <<first, 1 - first>>
    /\ UNCHANGED <<index, chunks_metadata, candidate_chunks, candidate_embeddings,
                   selected_indices, selected_chunks, result, error, client_raised, Env>>

\* lines 87-94: each hit's chunk copied and scored
ScoreAttach ==
    /\ pc = "scoring"
    /\ result' = [p \in 1..Len(candidate_indices) |->
                    Returned(PyGet(chunks_metadata, candidate_indices[p]),
                             {SimilarityScore32(distances[p])}, {})]
    /\ pc' = "returned"
    /\ UNCHANGED <<index, chunks_metadata, call, Locals, error, embed_requests,
                   client_raised, Env>>

NextScore ==
    \/ ScoreSearch
    \/ ScoreAttach
    \/ Finish

SpecScore == InitScore /\ [][NextScore]_vars

\* the two hits are scored and their distances differ
ScoredApart ==
    /\ pc = "returned"
    /\ Len(result) = 2
    /\ F32Less(distances[1], distances[2])

\* C19 as stated: of two candidates with distances d1 < d2 the nearer has
\* the strictly higher similarity_score.
C19_ScoreStrictlyDecreasing ==
    ScoredApart => F32Less(ScoreOf(result[2]), ScoreOf(result[1]))

\* C19 as it holds in float32: of two candidates with distances d1 < d2 the
\* farther never has the higher similarity_score.
C19_ScoreNonIncreasing ==
    ScoredApart => ~F32Less(ScoreOf(result[1]), ScoreOf(result[2]))

\* distances 1 and 2 scored 1/2 and 1/3
C19_Witness ==
    /\ ScoredApart
    /\ distances = <<F32One, [m |-> F32Hidden, e |-> -22]>>
    /\ ScoreOf(result[1]) = [m |-> F32Hidden, e |-> -24]
    /\ F32Less(ScoreOf(result[2]), ScoreOf(result[1]))

---------------------------------------------------------------------------
(* The selection step against the MMR formula.                             *)

\* the maximum cosine similarity between the candidate at position i and
\* the selected candidates, negative when all of them are
TrueMaxSim(i) ==
    SetMax({NpDot(candidate_embeddings[i + 1],
                  candidate_embeddings[ListIndex(candidate_indices, selected_indices[s]) + 1])
              : s \in 1..Len(selected_indices)})

\* lambda * relevance - (1 - lambda) * max_sim with that maximum
TrueScore(i) ==
    MmrScore(call.lambda_mult, Relevance(distances[i + 1]), TrueMaxSim(i))

\* C20: at every selection step after the seed the candidate picked
\* maximises lambda * relevance - (1 - lambda) * max_sim over the unselected
\* candidates, max_sim being the true maximum cosine similarity to the
\* selected ones, and the mmr_score recorded for it is that value.
C20_PickMaximisesMmr ==
    (pc = "mmr_loop" /\ LoopCondition /\ BestIdx /= NoBest) =>
        /\ \A i \in Unselected : TrueScore(BestIdx) >= TrueScore(i)
        /\ CandidateScore(BestIdx) = TrueScore(BestIdx)

---------------------------------------------------------------------------
(* Ties between equal MMR scores.                                          *)

\* C21: when several unselected candidates tie for the highest MMR score,
\* the one picked has the smallest row number of the index among them.
C21_TieToSmallestRow ==
    (pc = "mmr_loop" /\ LoopCondition /\ BestIdx /= NoBest) =>
        \A i \in Unselected :
            (candidate_indices[i + 1] >= 0
                /\ CandidateScore(i) = CandidateScore(BestIdx))
            => candidate_indices[BestIdx + 1] <= candidate_indices[i + 1]

---------------------------------------------------------------------------
(* Candidate vectors: embedded again from the texts, or read from the      *)
(* index.                                                                  *)

\* the stored vector of index row `label`, normalised as line 173 does
StoredEmbedding(label) == Normalized(index[label + 1])

\* C22: in retrieve_with_mmr every candidate_indices[i] is a row of the
\* index and candidate_embeddings[i] is the vector of that row, so the
\* selection is the same whether the vectors are embedded again from the
\* chunk texts or taken from the index.
C22_EmbeddingsAreIndexRows ==
    pc = "mmr_loop" =>
        /\ Len(candidate_embeddings) = Len(candidate_indices)
        /\ \A p \in 1..Len(candidate_indices) :
              /\ candidate_indices[p] \in 0..(N - 1)
              /\ candidate_embeddings[p] = StoredEmbedding(candidate_indices[p])

---------------------------------------------------------------------------
(* The size of the candidate pool.                                         *)

\* C23: whenever retrieve_with_mmr runs, called directly or by
\* retrieve_with_context, fetch_k >= top_k, and on an index of at least
\* top_k chunks it returns top_k results.
C23_FetchKCoversTopK ==
    /\ (pc /= "idle" /\ call.op = "mmr") => call.fetch_k >= call.top_k
    /\ (Returns /\ call.op = "mmr" /\ call.top_k >= 1 /\ N >= call.top_k)
          => Len(result) = call.top_k

---------------------------------------------------------------------------
(* The order of the list retrieve_with_mmr returns.                        *)

\* 0-based position among the candidates of the p-th selected one
SelectedPosition(p) == ListIndex(candidate_indices, selected_indices[p])

\* C24: retrieve_with_mmr returns the chunks in the order of selection: the
\* p-th element is the chunk of the p-th selected candidate, the seed first,
\* whatever the scores and distances are.
C24_ReturnedInSelectionOrder ==
    (Returns /\ call.op = "mmr") =>
        /\ Len(result) = Len(selected_indices)
        /\ selected_indices[1] = candidate_indices[1]
        /\ \A p \in 1..Len(result) :
              /\ result[p].chunk_id = candidate_chunks[SelectedPosition(p) + 1].chunk_id
              /\ result[p].text = candidate_chunks[SelectedPosition(p) + 1].text

\* three chunks returned, a farther one ahead of a nearer one
C24_Witness ==
    /\ Returns /\ call.op = "mmr"
    /\ Len(result) >= 3
    /\ Len(result) = Len(selected_indices)
    /\ \E p, q \in 1..Len(result) :
          /\ p < q
          /\ SelectedPosition(p) > SelectedPosition(q)
          /\ result[p].chunk_id /= result[q].chunk_id
          /\ result[p].chunk_id = candidate_chunks[SelectedPosition(p) + 1].chunk_id

---------------------------------------------------------------------------
(* A caller that writes to the dicts it was handed.                        *)

CallerCorpora == {<<1, 3>>, <<4, 3, 1>>}

InitCaller ==
    /\ Init
    /\ chunks_metadata \in {MakeChunks(texts) : texts \in CallerCorpora}

\* whether the p-th dict of the list returned by op is the dict stored in
\* chunks_metadata: the seed of retrieve_with_mmr is candidate_chunks[0],
\* taken from the list at lines 116-117 and appended at line 125 without
\* .copy(); lines 90 and 159 copy
IsStoredDict(op, p) == op = "mmr" /\ p = 1

CallerTexts == {2}       \* what the caller writes

\* the caller overwrites the text of one returned dict
CallerMutatesResult ==
    /\ pc = "returned"
    /\ \E p \in 1..Len(result), text \in CallerTexts :
          /\ result[p].text /= <<text>>
          /\ result' = [result EXCEPT ![p].text = <<text>>]
          /\ chunks_metadata' =
                IF IsStoredDict(call.op, p)
                THEN [chunks_metadata EXCEPT ![MetadataRow(result[p])].text = <<text>>]
                ELSE chunks_metadata
    /\ UNCHANGED <<index, pc, call, Locals, error, embed_requests, client_raised, Env>>

NextCaller ==
    \/ AppGenerate
    \/ CallerMutatesResult
    \/ GenerateQueryEmbedding
    \/ GenerateQueryEmbeddingFails
    \/ SimilarSearch
    \/ MmrSearch
    \/ GetBatchEmbeddings
    \/ GetBatchEmbeddingsFails
    \/ MmrIterate
    \/ MmrReturn
    \/ Finish

SpecCaller == InitCaller /\ [][NextCaller]_vars

\* C25: no returned element shares storage with chunks_metadata, so
\* whatever a caller writes to the elements of a result, chunks_metadata
\* stays what was loaded and later calls answer from the same records.
C25_ReturnedAreCopies ==
    chunks_metadata = disk.metadata_file

\* ---------------------------------------------------------------------
\* MemoryManager (src/memory_manager.py): the memory dictionary of one
\* object and the JSON file it is loaded from and dumped to
\* ---------------------------------------------------------------------

MaxLogged == 52         \* log_generated_post calls of one run
KeepPosts == 50         \* lines 103-104

\* the hashtags, phrases and themes a caller adds
AddValues == {1, 2}

\* the post texts logged by one manager
LoggedTexts == {1}

\* s[-n:] of Python
PySliceLast(s, n) ==
    IF n = 0 THEN s
    ELSE IF n > 0 THEN SubSeq(s, Max(1, Len(s) - n + 1), Len(s))
    ELSE SubSeq(s, Min(Len(s), -n) + 1, Len(s))

\* the oldest n entries instead of the newest
PySliceFirst(s, n) == SubSeq(s, 1, Min(n, Len(s)))

\* line 104: self.memory['previous_posts'][-50:]
KeepLast(s, n) == PySliceLast(s, n)

\* json.dump left out: the file keeps what it had
SaveMemoryNotWritten(file, mem) == file

\* save_memory, lines 45-50: the whole dictionary is dumped
SaveMemory(file, mem) == [exists |-> TRUE, memory |-> mem]

\* _load_or_create_memory, lines 28-43
LoadOrCreateMemory(file) == IF file.exists THEN file.memory ELSE MemoryTemplate

\* x in list
Contains(s, x) == \E p \in 1..Len(s) : s[p] = x

\* get_recent_posts, lines 121-131
GetRecentPosts(mem, limit) == PySliceLast(mem.previous_posts, limit)

\* lines 91-98: the entry of a post; the time of the call is its number
PostEntry(post_text, now) == [timestamp |-> now, post |-> post_text]

\* lines 100-104: append, then keep the last 50
WithLoggedPost(mem, entry) ==
    LET appended == Append(mem.previous_posts, entry)
    IN  [mem EXCEPT !.previous_posts =
            IF Len(appended) > KeepPosts THEN KeepLast(appended, KeepPosts) ELSE appended]

\* MemoryManager(memory_path=...), lines 16-26
MemoryManagerInit(mgr) ==
    /\ managers' = [managers EXCEPT ![mgr] =
                      [live |-> TRUE, memory |-> LoadOrCreateMemory(memory_file)]]
    /\ UNCHANGED <<memory_file, posts_logged, session>>

\* log_generated_post, lines 84-107
LogGeneratedPost(mgr, post_text) ==
    /\ managers[mgr].live
    /\ posts_logged' = posts_logged + 1
    /\ LET mem == WithLoggedPost(managers[mgr].memory, PostEntry(post_text, posts_logged'))
       IN  /\ managers' = [managers EXCEPT ![mgr].memory = mem]
           /\ memory_file' = SaveMemory(memory_file, mem)

\* lines 63-82: if value not in list: append, save_memory
AddToPreference(mgr, key, value) ==
    /\ managers[mgr].live
    /\ IF Contains(managers[mgr].memory.preferences[key], value)
       THEN UNCHANGED <<managers, memory_file>>
       ELSE LET mem == [managers[mgr].memory EXCEPT
                           !.preferences[key] = Append(@, value)]
            IN  /\ managers' = [managers EXCEPT ![mgr].memory = mem]
                /\ memory_file' = SaveMemory(memory_file, mem)
    /\ UNCHANGED <<posts_logged, session>>

\* add_preferred_hashtag, lines 63-68
AddPreferredHashtag(mgr, hashtag) == AddToPreference(mgr, "preferred_hashtags", hashtag)

\* add_banned_phrase, lines 70-75
AddBannedPhrase(mgr, phrase) == AddToPreference(mgr, "banned_phrases", phrase)

\* add_theme, lines 77-82
AddTheme(mgr, theme) == AddToPreference(mgr, "recurring_themes", theme)

\* what the memory actions leave alone: the retriever, its calls and the
\* plagiarism checker
RetrievalVars ==
    <<index, chunks_metadata, FrameVars, retriever_chunks, disk, indexer, other, plagiarism>>

InitMemory ==
    /\ Init
    /\ chunks_metadata = MakeChunks(ExampleCorpus)

MemoryCreate ==
    /\ ~managers["app"].live
    /\ MemoryManagerInit("app")
    /\ UNCHANGED RetrievalVars

\* the process is started again: the manager is built from the file
MemoryRestart ==
    /\ managers["app"].live
    /\ MemoryManagerInit("app")
    /\ UNCHANGED RetrievalVars

MemoryLog ==
    /\ posts_logged < MaxLogged
    /\ \E post_text \in LoggedTexts : LogGeneratedPost("app", post_text)
    /\ UNCHANGED <<session, RetrievalVars>>

MemoryAddHashtag ==
    /\ \E hashtag \in AddValues : AddPreferredHashtag("app", hashtag)
    /\ UNCHANGED RetrievalVars

MemoryAddPhrase ==
    /\ \E phrase \in AddValues : AddBannedPhrase("app", phrase)
    /\ UNCHANGED RetrievalVars

MemoryAddTheme ==
    /\ \E theme \in AddValues : AddTheme("app", theme)
    /\ UNCHANGED RetrievalVars

NextMemory ==
    \/ MemoryCreate
    \/ MemoryRestart
    \/ MemoryLog
    \/ MemoryAddHashtag
    \/ MemoryAddPhrase
    \/ MemoryAddTheme

SpecMemory == InitMemory /\ [][NextMemory]_vars

\* the numbers of the posts a memory holds, in list order
LoggedNumbers(mem) == [p \in 1..Len(mem.previous_posts) |-> mem.previous_posts[p].timestamp]

\* the last n of the log numbers 1..c, oldest first
MostRecent(c, n) == [p \in 1..Min(c, n) |-> c - Min(c, n) + p]

\* C26: after any sequence of log_generated_post calls previous_posts holds
\* at most 50 entries, and they are the most recently logged posts in
\* logging order; get_recent_posts(limit) returns the newest limit of them
C26_KeepsMostRecentFifty ==
    managers["app"].live =>
        LET mem == managers["app"].memory
        IN  /\ Len(mem.previous_posts) <= KeepPosts
            /\ LoggedNumbers(mem) = MostRecent(posts_logged, KeepPosts)
            /\ \A limit \in 1..KeepPosts :
                  [p \in 1..Len(GetRecentPosts(mem, limit)) |->
                      GetRecentPosts(mem, limit)[p].timestamp]
                  = MostRecent(posts_logged, limit)

\* 52 posts were logged: the first two were dropped
C26_Witness ==
    /\ managers["app"].live
    /\ posts_logged = KeepPosts + 2
    /\ Len(managers["app"].memory.previous_posts) = KeepPosts
    /\ managers["app"].memory.previous_posts[1].timestamp = 3

PreferenceKeys == {"preferred_hashtags", "banned_phrases", "recurring_themes"}

\* no value occurs twice in the list
NoDuplicates(s) == \A p, r \in 1..Len(s) : s[p] = s[r] => p = r

\* the step is a call of one of the three add methods with a value the
\* list already holds
RepeatedAdd(mgr) ==
    \E key \in PreferenceKeys, value \in AddValues :
        /\ Contains(managers[mgr].memory.preferences[key], value)
        /\ AddToPreference(mgr, key, value)

\* the step is a call of one of the three add methods that changed a list
ChangingAdd(mgr) ==
    \E key \in PreferenceKeys, value \in AddValues :
        /\ AddToPreference(mgr, key, value)
        /\ managers'[mgr].memory.preferences[key] /= managers[mgr].memory.preferences[key]

\* C30: the three add methods are idempotent: no list ever holds a value
\* twice, a repeated add leaves the memory and the file unchanged, and
\* after an add that changed a list the file equals the memory
C30_AddsIdempotent ==
    /\ [](managers["app"].live =>
            \A key \in PreferenceKeys :
                NoDuplicates(managers["app"].memory.preferences[key]))
    /\ [][/\ RepeatedAdd("app") => UNCHANGED <<managers, memory_file>>
          /\ ChangingAdd("app") =>
                /\ memory_file'.exists
                /\ memory_file'.memory = managers'["app"].memory]_vars

\* both values were added to the banned phrases, the second one first,
\* and the file holds what the memory holds
C30_Witness ==
    /\ managers["app"].live
    /\ managers["app"].memory.preferences.banned_phrases = <<2, 1>>
    /\ managers["app"].memory.preferences.preferred_hashtags = <<1, 2>>
    /\ memory_file = [exists |-> TRUE, memory |-> managers["app"].memory]

\* ---------------------------------------------------------------------
\* two MemoryManager objects on memory/memory.json: the one app.py keeps
\* in st.cache_resource and the one app_test.py builds in each generation
\* ---------------------------------------------------------------------

MaxSharedLogged == 7    \* log_generated_post calls of the two interfaces together

InitShared ==
    /\ Init
    /\ chunks_metadata = MakeChunks(ExampleCorpus)

\* app.py, lines 69-101: load_components runs once, its result is cached
SharedAppLoad ==
    /\ ~managers["app"].live
    /\ MemoryManagerInit("app")
    /\ UNCHANGED RetrievalVars

\* app.py, lines 272-275, on the cached manager
SharedAppLog ==
    /\ posts_logged < MaxSharedLogged
    /\ \E post_text \in LoggedTexts : LogGeneratedPost("app", post_text)
    /\ UNCHANGED <<session, RetrievalVars>>

\* app_test.py, lines 378-445: a manager is built from the file and logs
\* the interaction
SharedAppTestLog ==
    /\ posts_logged < MaxSharedLogged
    /\ posts_logged' = posts_logged + 1
    /\ \E post_text \in LoggedTexts :
          LET mem == WithLoggedPost(LoadOrCreateMemory(memory_file),
                                    PostEntry(post_text, posts_logged'))
          IN  /\ managers' = [managers EXCEPT !["app_test"] =
                                 [live |-> TRUE, memory |-> mem]]
              /\ memory_file' = SaveMemory(memory_file, mem)
    /\ UNCHANGED <<session, RetrievalVars>>

NextShared ==
    \/ SharedAppLoad
    \/ SharedAppLog
    \/ SharedAppTestLog

SpecShared == InitShared /\ [][NextShared]_vars

\* the log numbers in the file
PersistedNumbers ==
    {memory_file.memory.previous_posts[p].timestamp :
        p \in 1..Len(memory_file.memory.previous_posts)}

\* C27: a post logged by any manager stays in the previous_posts of the
\* file until 50 later posts have been logged, also when the manager of
\* app.py and the managers of app_test.py write the same file
C27_LoggedPostsStayPersisted ==
    \A n \in 1..posts_logged :
        posts_logged - n < KeepPosts => n \in PersistedNumbers

\* ---------------------------------------------------------------------
\* the generate flow of interface/app.py (lines 196-282) with the
\* language model as an outside party that answers or fails
\* ---------------------------------------------------------------------

MaxGenerations == 4     \* completed generations of one session

\* the texts the language model answers with
PostTexts == {1, 2}

LlmOutcomes == {"fails", "ok"}

\* generate_post, generate.py lines 48-76: the answer, or "" when the
\* client raised (the except clause prints and returns "")
GeneratePost(outcome, text) == IF outcome = "fails" THEN EmptyPost ELSE text

\* check_with_explanation on the post: a post without words has no run of
\* 15 words
IsPlagiarized(post_text, copied) == post_text /= EmptyPost /\ copied

InitGenerate ==
    /\ Init
    /\ chunks_metadata = MakeChunks(ExampleCorpus)

\* app.py, lines 202-282: retrieve, generate, check, paraphrase on demand,
\* then session state and memory; first and second are the outcomes of the
\* call of line 237 and of the paraphrase call of line 254
GenerateFlow(first, second) ==
    /\ managers["app"].live
    /\ session.generation_count < MaxGenerations
    /\ \E retrieval_raises, regenerate_btn, copied \in BOOLEAN, text \in PostTexts,
          paraphrase \in PostTexts :
          IF retrieval_raises
          THEN UNCHANGED AppVars                     \* lines 281-282
          ELSE LET generated == GeneratePost(first, text)
                   post_text ==
                       IF IsPlagiarized(generated, copied) /\ regenerate_btn
                       THEN GeneratePost(second, paraphrase)
                       ELSE generated
               IN  /\ session' = [generated_post |-> post_text,
                                  generation_count |-> session.generation_count + 1]
                   /\ LogGeneratedPost("app", post_text)
    /\ UNCHANGED RetrievalVars

AppGenerateFlow == \E first, second \in LlmOutcomes : GenerateFlow(first, second)

NextGenerate ==
    \/ SharedAppLoad
    \/ AppGenerateFlow

SpecGenerate == InitGenerate /\ [][NextGenerate]_vars

\* a run of the flow in which the call of line 237 failed
FailedGeneration == \E second \in LlmOutcomes : GenerateFlow("fails", second)

\* C28: when the language-model call inside generate_post fails, the
\* generate flow logs no post, does not increment generation_count and
\* leaves the generated post of the session as it was
C28_FailedGenerationLeavesNoTrace ==
    [][FailedGeneration =>
          /\ posts_logged' = posts_logged
          /\ managers' = managers
          /\ memory_file' = memory_file
          /\ session' = session]_vars

\* ---------------------------------------------------------------------
\* PlagiarismChecker (src/plagiarism_checker.py): texts are strings over a
\* small alphabet, a word is a run of characters other than the blank
\* ---------------------------------------------------------------------

MaxTextLen == 3         \* characters of a generated post
MaxChunks == 2          \* source chunks of one check
MaxThreshold == 2       \* thresholds 1..MaxThreshold

Chars == {"a", "A", " "}

\* the generated posts
PostStrings == UNION {[1..n -> Chars] : n \in 0..MaxTextLen}

\* the texts of the source chunks: "A a", "aA", "a  aa A" and the empty text
SourceTexts ==
    {<<"A", " ", "a">>, <<"a", "A">>, <<"a", " ", " ", "a", "a", " ", "A">>, << >>}

\* lists of chunks with the given texts; chunk_id is the position
ChunkLists ==
    UNION {{[p \in 1..n |-> [chunk_id |-> p - 1, text |-> texts[p]]] :
               texts \in [1..n -> SourceTexts]} : n \in 0..MaxChunks}

\* str.lower
Lower(text) == [p \in 1..Len(text) |-> IF text[p] = "A" THEN "a" ELSE text[p]]

\* str.split(): the runs of non-blank characters, from position p on, with
\* the word under way and the words found
RECURSIVE SplitFrom(_, _, _, _)
SplitFrom(text, p, word, out) ==
    LET closed == IF word = << >> THEN out ELSE Append(out, word)
    IN  IF p > Len(text) THEN closed
        ELSE IF text[p] = " " THEN SplitFrom(text, p + 1, << >>, closed)
        ELSE SplitFrom(text, p + 1, Append(word, text[p]), out)

Split(text) == SplitFrom(text, 1, << >>, << >>)

\* lines 42-46: the while loop that extends the match at i, j
RECURSIVE MatchLength(_, _, _, _, _)
MatchLength(gen_words, src_words, i, j, length) ==
    IF /\ i + length < Len(gen_words)
       /\ j + length < Len(src_words)
       /\ gen_words[i + length + 1] = src_words[j + length + 1]
    THEN MatchLength(gen_words, src_words, i, j, length + 1)
    ELSE length

\* find_longest_match, lines 23-52: max_length starts at 0 and is replaced
\* by every longer match over all i, j
FindLongestMatch(generated, source) ==
    LET gen_words == Split(Lower(generated))
        src_words == Split(Lower(source))
    IN  SetMax({0} \cup {MatchLength(gen_words, src_words, i, j, 0) :
                            i \in 0..(Len(gen_words) - 1), j \in 0..(Len(src_words) - 1)})

\* a match is flagged only above the threshold
FlaggedAbove(match_length, threshold) == match_length > threshold

\* line 76: match_length >= self.threshold
Flagged(match_length, threshold) == match_length >= threshold

\* lines 70-86: the loop over the chunks from position p on
RECURSIVE CheckLoop(_, _, _, _, _, _)
CheckLoop(generated_post, source_chunks, threshold, p, issues, max_overlap) ==
    IF p > Len(source_chunks)
    THEN [is_plagiarized |-> Len(issues) > 0, max_consecutive_words |-> max_overlap,
          issues |-> issues, threshold |-> threshold]
    ELSE LET chunk == source_chunks[p]
             match_length == FindLongestMatch(generated_post, chunk.text)
         IN  CheckLoop(generated_post, source_chunks, threshold, p + 1,
                       IF Flagged(match_length, threshold)
                       THEN Append(issues, [chunk_id |-> chunk.chunk_id,
                                            match_length |-> match_length])
                       ELSE issues,
                       IF match_length > max_overlap THEN match_length ELSE max_overlap)

\* check_against_chunks, lines 54-104 (the similarity ratio left out)
CheckAgainstChunksResult(generated_post, source_chunks, threshold) ==
    CheckLoop(generated_post, source_chunks, threshold, 1, << >>, 0)

\* what the plagiarism actions leave alone
NotPlagiarism == <<index, chunks_metadata, FrameVars, retriever_chunks, disk, indexer, other,
                   AppVars>>

InitPlagiarism ==
    /\ Init
    /\ chunks_metadata = MakeChunks(ExampleCorpus)

\* PlagiarismChecker(threshold=...) and a call of check_against_chunks
CheckAgainstChunksCall ==
    /\ plagiarism.pc = "idle"
    /\ \E generated_post \in PostStrings, source_chunks \in ChunkLists,
          threshold \in 1..MaxThreshold :
          plagiarism' = [NoCheck EXCEPT !.pc = "called",
                                        !.generated_post = generated_post,
                                        !.source_chunks = source_chunks,
                                        !.threshold = threshold]
    /\ UNCHANGED NotPlagiarism

\* lines 66-104
CheckAgainstChunks ==
    /\ plagiarism.pc = "called"
    /\ plagiarism' = [plagiarism EXCEPT
                         !.pc = "returned",
                         !.result = CheckAgainstChunksResult(plagiarism.generated_post,
                                       plagiarism.source_chunks, plagiarism.threshold)]
    /\ UNCHANGED NotPlagiarism

NextPlagiarism ==
    \/ CheckAgainstChunksCall
    \/ CheckAgainstChunks

SpecPlagiarism == InitPlagiarism /\ [][NextPlagiarism]_vars

\* two characters are the same letter, whatever their case
SameLetter(c, d) == c = d \/ {c, d} = {"a", "A"}

\* two words are equal when compared case-insensitively
SameWord(v, w) == Len(v) = Len(w) /\ \A p \in 1..Len(v) : SameLetter(v[p], w[p])

\* some run of n consecutive words of the one text is a run of the other
CommonRun(gen_words, src_words, n) ==
    \E a \in 0..(Len(gen_words) - n), b \in 0..(Len(src_words) - n) :
        \A k \in 1..n : SameWord(gen_words[a + k], src_words[b + k])

\* the length of the longest run of consecutive words in both texts
LongestCommonRun(generated, source) ==
    LET gen_words == Split(generated)
        src_words == Split(source)
    IN  SetMax({n \in 0..Len(gen_words) : CommonRun(gen_words, src_words, n)})

=============================================================================
